---- MODULE Spec2Model ----
(***************************************************************************)
(* Model of the two workflow scripts of the repository:                    *)
(*   .github/workflows/check_schema_changes.py   (SchemaChangeChecker)     *)
(*   .github/workflows/scripts/validate_metadata.py  (MetadataValidator)   *)
(*                                                                         *)
(* A parsed YAML mapping is a record that carries every key the scripts    *)
(* read; a key the mapping does not hold has the value Absent, a key that  *)
(* is present with a YAML null has the value None.  The other values are   *)
(* tagged: Str(s), List(seq), Dict(keys).                                  *)
(***************************************************************************)
EXTENDS Integers, Sequences, FiniteSets, TLC

(***************************************************************************)
(* Python values                                                           *)
(***************************************************************************)
Absent == [t |-> "absent"]
None == [t |-> "none"]
Str(s) == [t |-> "str", v |-> s]
List(s) == [t |-> "list", v |-> s]
Dict(ks) == [t |-> "dict", v |-> ks]

\* dict.get(key, default): the default only when the key is missing.
Get(d, k, default) == IF d[k] = Absent THEN default ELSE d[k]

\* Truth value of a parsed mapping: a dict is falsy exactly when it has no key.
Truthy(d) == \E k \in DOMAIN d : d[k] # Absent

\* The sequences over S of length at most n.
SeqsUpTo(S, n) == UNION {[1..k -> S] : k \in 0..n}

\* The orders in which Python may iterate a set.
Orders(S) == {f \in [1..Cardinality(S) -> S] : \A i, j \in DOMAIN f : f[i] = f[j] => i = j}

Range(s) == {s[i] : i \in DOMAIN s}

(***************************************************************************)
(* Bounds                                                                  *)
(***************************************************************************)
MaxFiles == 2
MaxModels == 2

(***************************************************************************)
(* check_schema_changes.py: inputs                                         *)
(***************************************************************************)
ModelNames == {"users", "orders"}

\* A `columns` value of a model entry: the key missing, or a list of column
\* entries.  The two lists share column b; the second repeats a name.
ColumnLists ==
    {Absent,
     List(<<[name |-> Str("a")], [name |-> Str("b")]>>),
     List(<<[name |-> Str("d")], [name |-> Str("b")], [name |-> Str("d")]>>)}

DiffModelEntries == [name : {Str(n) : n \in ModelNames}, columns : ColumnLists]

\* What yaml.safe_load(...) or {} hands the checker: the empty mapping (file
\* missing at the revision, unreadable, unparsable or empty), a mapping
\* without a `models` key, or a mapping with a list of at most n models.
EmptyDict == [version |-> Absent, models |-> Absent]
DiffDocs(entries, n) ==
    {EmptyDict, [version |-> Str("2"), models |-> Absent]}
    \cup {[version |-> Absent, models |-> List(ms)] : ms \in SeqsUpTo(entries, n)}

\* A changed schema file: its content in the working tree and on origin/main.
ChangedFiles(entries, n) == [current : DiffDocs(entries, n), main : DiffDocs(entries, n)]

\* The model entries of the runs over several files.
FewModelEntries == [name : {Str(n) : n \in ModelNames}, columns : ColumnLists \ {Absent}]

\* The changed schema files of a run: one file of up to MaxModels models a
\* side, or up to MaxFiles files of at most one model a side.
Repos ==
    [1..1 -> ChangedFiles(DiffModelEntries, MaxModels)]
    \cup SeqsUpTo(ChangedFiles(FewModelEntries, 1), MaxFiles)

VARIABLES
    repo,                  \* the changed schema files, in the order of get_changed_files
    idx,                   \* number of files check_schema_changes has processed
    breaking_changes,
    non_breaking_changes,
    mark_b,                \* Len(breaking_changes) before the file processed last
    mark_nb,               \* Len(non_breaking_changes) before the file processed last
    dpc,                   \* "checking" | "exited"
    dexit                  \* exit status of check_schema_changes.py, -1 while running

dvars == <<repo, idx, breaking_changes, non_breaking_changes, mark_b, mark_nb, dpc, dexit>>

VARIABLES
    corpus,        \* the parsed schema files, in the order of find_schema_files
    model_names,   \* the stems of the .sql files, in the set's iteration order
    errors,
    warnings,
    vdone,         \* number of validation passes started
    vpc,           \* "validating" | "report" | "exited" | "crashed"
    vexit          \* exit status of validate_metadata.py, -1 while running

vvars == <<corpus, model_names, errors, warnings, vdone, vpc, vexit>>
vars == <<dvars, vvars>>

(***************************************************************************)
(* check_schema_changes.py: findings                                       *)
(***************************************************************************)
NoColumns == {}
ModelRemoved(m) == [kind |-> "ModelRemoved", model |-> m, columns |-> NoColumns]
ModelAdded(m) == [kind |-> "ModelAdded", model |-> m, columns |-> NoColumns]
ColumnsRemoved(m, cs) == [kind |-> "ColumnsRemoved", model |-> m, columns |-> cs]
ColumnsAdded(m, cs) == [kind |-> "ColumnsAdded", model |-> m, columns |-> cs]

\* {m['name']: m for m in models}: a later entry of the same name replaces an earlier one.
RECURSIVE ModelsByName(_)
ModelsByName(ms) ==
    IF ms = <<>> THEN <<>>
    ELSE LET m == ms[Len(ms)]
             rest == ModelsByName(SubSeq(ms, 1, Len(ms) - 1))
         IN [k \in (DOMAIN rest) \cup {m.name} |-> IF k = m.name THEN m ELSE rest[k]]

\* [c['name'] for c in model.get('columns', [])]
ColumnNames(model) ==
    LET cols == Get(model, "columns", List(<<>>)).v
    IN [i \in DOMAIN cols |-> cols[i].name]

\* Faulty variant: every old column counts as removed.
check_column_removals_listing_all(acc, model_name, old_columns, new_columns) ==
    LET removed_columns == Range(old_columns)
    IN IF removed_columns # {}
       THEN [acc EXCEPT !.b = Append(@, ColumnsRemoved(model_name, removed_columns))]
       ELSE acc

\* check_column_removals: one breaking finding naming set(old) - set(new), if any.
check_column_removals(acc, model_name, old_columns, new_columns) ==
    LET removed_columns == Range(old_columns) \ Range(new_columns)
    IN IF removed_columns # {}
       THEN [acc EXCEPT !.b = Append(@, ColumnsRemoved(model_name, removed_columns))]
       ELSE acc

\* Faulty variant: every new column counts as added.
check_column_additions_listing_all(acc, model_name, old_columns, new_columns) ==
    LET added_columns == Range(new_columns)
    IN IF added_columns # {}
       THEN [acc EXCEPT !.nb = Append(@, ColumnsAdded(model_name, added_columns))]
       ELSE acc

\* check_column_additions: one non-breaking finding naming set(new) - set(old), if any.
check_column_additions(acc, model_name, old_columns, new_columns) ==
    LET added_columns == Range(new_columns) \ Range(old_columns)
    IN IF added_columns # {}
       THEN [acc EXCEPT !.nb = Append(@, ColumnsAdded(model_name, added_columns))]
       ELSE acc

\* Variant: a name only in the working tree is recorded as a non-breaking finding.
CompareModel_recording_added(acc, model_name, current_models, main_models) ==
    IF model_name \notin DOMAIN main_models
    THEN [acc EXCEPT !.nb = Append(@, ModelAdded(model_name))]
    ELSE IF model_name \notin DOMAIN current_models
    THEN [acc EXCEPT !.b = Append(@, ModelRemoved(model_name))]
    ELSE LET old_columns == ColumnNames(main_models[model_name])
             new_columns == ColumnNames(current_models[model_name])
         IN check_column_additions(
                check_column_removals(acc, model_name, old_columns, new_columns),
                model_name, old_columns, new_columns)

\* Faulty variant: a name only on origin/main is passed over.
CompareModel_dropping_removed(acc, model_name, current_models, main_models) ==
    IF model_name \notin DOMAIN main_models \/ model_name \notin DOMAIN current_models
    THEN acc
    ELSE LET old_columns == ColumnNames(main_models[model_name])
             new_columns == ColumnNames(current_models[model_name])
         IN check_column_additions(
                check_column_removals(acc, model_name, old_columns, new_columns),
                model_name, old_columns, new_columns)

\* One round of the loop over the model names of a file.  A name only in the
\* working tree is printed as "New model" and recorded nowhere.
CompareModel(acc, model_name, current_models, main_models) ==
    IF model_name \notin DOMAIN main_models
    THEN acc
    ELSE IF model_name \notin DOMAIN current_models
    THEN [acc EXCEPT !.b = Append(@, ModelRemoved(model_name))]
    ELSE LET old_columns == ColumnNames(main_models[model_name])
             new_columns == ColumnNames(current_models[model_name])
         IN check_column_additions(
                check_column_removals(acc, model_name, old_columns, new_columns),
                model_name, old_columns, new_columns)

\* The loop over set(current_models) | set(main_models), in the order `order`.
RECURSIVE CompareModels(_, _, _, _)
CompareModels(acc, order, current_models, main_models) ==
    IF order = <<>> THEN acc
    ELSE CompareModels(CompareModel(acc, Head(order), current_models, main_models),
                       Tail(order), current_models, main_models)

DiffInit ==
    /\ repo \in Repos
    /\ idx = 0
    /\ breaking_changes = <<>>
    /\ non_breaking_changes = <<>>
    /\ mark_b = 0
    /\ mark_nb = 0
    /\ dpc = "checking"
    /\ dexit = -1
    \* validate_metadata.py is not run
    /\ corpus = <<>>
    /\ model_names = <<>>
    /\ errors = <<>>
    /\ warnings = <<>>
    /\ vdone = 0
    /\ vpc = "idle"
    /\ vexit = -1

\* `if not main_schema: continue`: nothing on origin/main to compare with.
SkipNewFile ==
    /\ dpc = "checking"
    /\ idx < Len(repo)
    /\ ~Truthy(repo[idx + 1].main)
    /\ idx' = idx + 1
    /\ mark_b' = Len(breaking_changes)
    /\ mark_nb' = Len(non_breaking_changes)
    /\ UNCHANGED <<repo, breaking_changes, non_breaking_changes, dpc, dexit>>
    /\ UNCHANGED vvars

\* One round of the loop over the schema files with a version on origin/main.
CompareFile ==
    /\ dpc = "checking"
    /\ idx < Len(repo)
    /\ Truthy(repo[idx + 1].main)
    /\ LET current_schema == repo[idx + 1].current
           main_schema == repo[idx + 1].main
           current_models == ModelsByName(Get(current_schema, "models", List(<<>>)).v)
           main_models == ModelsByName(Get(main_schema, "models", List(<<>>)).v)
       IN \E order \in Orders((DOMAIN current_models) \cup (DOMAIN main_models)) :
            LET acc == CompareModels([b |-> breaking_changes, nb |-> non_breaking_changes],
                                     order, current_models, main_models)
            IN /\ breaking_changes' = acc.b
               /\ non_breaking_changes' = acc.nb
    /\ idx' = idx + 1
    /\ mark_b' = Len(breaking_changes)
    /\ mark_nb' = Len(non_breaking_changes)
    /\ UNCHANGED <<repo, dpc, dexit>>
    /\ UNCHANGED vvars

\* generate_report returns True whatever was found; main exits 0.
DiffReport ==
    /\ dpc = "checking"
    /\ idx = Len(repo)
    /\ dpc' = "exited"
    /\ dexit' = 0
    /\ UNCHANGED <<repo, idx, breaking_changes, non_breaking_changes, mark_b, mark_nb>>
    /\ UNCHANGED vvars

DiffNext == SkipNewFile \/ CompareFile \/ DiffReport

(***************************************************************************)
(* validate_metadata.py: inputs                                            *)
(***************************************************************************)
MaxDocs == 2
MaxCols == 2

\* Text is a sequence of characters.
X(n) == [i \in 1..n |-> "x"]
Text_users_id == <<"u", "s", "e", "r", "_", "i", "d">>
Text_ID == <<"I", "D">>
Text_name == <<"n", "a", "m", "e">>
Text_width == <<"w", "i", "d", "t", "h">>

\* A schema file that open() or yaml.safe_load() fails on.
Unreadable == [t |-> "unreadable"]

Tagged == List(<<Str("pii")>>)
BothTests == List(<<Str("unique"), Str("not_null")>>)

\* `description` values of a model: missing, null, blank, 7 characters,
\* 9 characters between blanks, 12 characters.
ModelDescriptions ==
    {Absent, None, Str(<<" ", " ">>), Str(X(7)), Str(<<" ">> \o X(9) \o <<" ">>), Str(X(12))}

\* `columns` values of a model in the corpora that vary the models.
ModelColumns ==
    {Absent,
     List(<<>>),
     List(<<[name |-> Str(Text_users_id), description |-> Str(X(5)), tests |-> BothTests]>>),
     List(<<[name |-> Str(Text_name), description |-> Absent, tests |-> Absent]>>),
     List(<<[name |-> Str(Text_name), description |-> None, tests |-> Absent]>>),
     List(<<[name |-> Str(Text_name), description |-> Str(<<" ">> \o X(3)), tests |-> Absent],
            [name |-> None, description |-> Str(X(5)), tests |-> Absent]>>)}

ValModelEntries ==
    [name : {Str("users"), Str("orders")}, description : ModelDescriptions,
     columns : {Absent}, tags : {Tagged}]
    \cup [name : {Str("users")}, description : {Str(X(12))},
          columns : ModelColumns, tags : {Absent, Tagged}]
    \cup [name : {Absent, None}, description : {Absent},
          columns : {Absent}, tags : {List(<<>>)}]

\* The files find_schema_files yields: unreadable, empty, without a `models`
\* key, with an empty `models` list, or declaring one model.
ValDocs ==
    {Unreadable, EmptyDict, [version |-> Str("2"), models |-> Absent],
     [version |-> Absent, models |-> List(<<>>)]}
    \cup {[version |-> Str("2"), models |-> List(<<m>>)] : m \in ValModelEntries}

\* `tests` values of a column: bare names and parameterized mappings.
TestLists ==
    {Absent,
     List(<<>>),
     List(<<Str("unique")>>),
     List(<<Str("not_null")>>),
     List(<<Dict({"unique"})>>),
     List(<<Str("not_null"), Dict({"unique"})>>),
     List(<<Dict({"accepted_values"}), Dict({"unique", "not_null"})>>)}

TestedColumns ==
    [name : {Str(Text_users_id), Str(Text_ID), Str(Text_name), Str(Text_width)},
     description : {Str(X(5))}, tests : TestLists]

\* One file declaring one model with up to MaxCols columns that vary in name and tests.
TestCorpora ==
    {<<[version |-> Str("2"),
        models |-> List(<<[name |-> Str("users"), description |-> Str(X(12)),
                           columns |-> List(cs), tags |-> Tagged]>>)]>> :
        cs \in SeqsUpTo(TestedColumns, MaxCols)}

\* The stems of the .sql files, in the order Python iterates the set.
NameOrders == UNION {Orders(S) : S \in SUBSET ModelNames}

(***************************************************************************)
(* validate_metadata.py: findings                                          *)
(***************************************************************************)
Finding(kind, model, column, file, test) ==
    [kind |-> kind, model |-> model, column |-> column, file |-> file, test |-> test]
LoadError(file) == Finding("LoadError", None, None, file, "")
Undocumented(m) == Finding("Undocumented", m, None, 0, "")
EmptyModelDescription(m, file) == Finding("EmptyModelDescription", m, None, file, "")
ShortModelDescription(m) == Finding("ShortModelDescription", m, None, 0, "")
NoColumnsDocumented(m, file) == Finding("NoColumnsDocumented", m, None, file, "")
EmptyColumnDescription(m, c, file) == Finding("EmptyColumnDescription", m, c, file, "")
ShortColumnDescription(m, c) == Finding("ShortColumnDescription", m, c, 0, "")
MissingTest(m, c, test) == Finding("MissingTest", m, c, 0, test)
NoTags(m) == Finding("NoTags", m, None, 0, "")

(***************************************************************************)
(* str methods                                                             *)
(***************************************************************************)
RECURSIVE LStrip(_)
LStrip(s) == IF s # <<>> /\ Head(s) = " " THEN LStrip(Tail(s)) ELSE s

RECURSIVE RStrip(_)
RStrip(s) == IF s # <<>> /\ s[Len(s)] = " " THEN RStrip(SubSeq(s, 1, Len(s) - 1)) ELSE s

\* str.strip()
Strip(s) == RStrip(LStrip(s))

\* str.lower()
LowerChar(c) == IF c = "I" THEN "i" ELSE IF c = "D" THEN "d" ELSE c
Lower(s) == [i \in DOMAIN s |-> LowerChar(s[i])]

\* sub in s
Contains(s, sub) ==
    \E i \in 0..(Len(s) - Len(sub)) : \A j \in 1..Len(sub) : s[i + j] = sub[j]

(***************************************************************************)
(* validate_metadata.py: the validation passes                             *)
(*                                                                         *)
(* A pass maps acc = [errors, warnings, raised] to its value after the     *)
(* pass.  raised is set at the statement that throws; nothing catches it,  *)
(* so nothing after it runs.                                               *)
(***************************************************************************)

\* Faulty variant: a file that cannot be read is taken as empty and not logged.
load_schema_file_silent(acc, files, file) ==
    IF files[file] = Unreadable
    THEN [acc |-> acc, schema |-> EmptyDict]
    ELSE [acc |-> acc, schema |-> files[file]]

\* load_schema_file: a file that cannot be read or parsed is logged in
\* errors and taken as the empty mapping.
load_schema_file(acc, files, file) ==
    IF files[file] = Unreadable
    THEN [acc |-> [acc EXCEPT !.errors = Append(@, LoadError(file))], schema |-> EmptyDict]
    ELSE [acc |-> acc, schema |-> files[file]]

\* `for model in schema['models']` when 'models' in schema, else nothing.
ModelsOf(schema) == IF schema.models # Absent THEN schema.models.v ELSE <<>>

\* Lines 52-59: documented_models[model_name] = {description, file}.
RECURSIVE DocumentModels(_, _, _, _)
DocumentModels(acc, documented, models, file) ==
    IF models = <<>> \/ acc.raised THEN [acc |-> acc, documented |-> documented]
    ELSE LET model == Head(models)
             model_name == Get(model, "name", None)
             description == Get(model, "description", Str(<<>>))
         IN IF description = None
            THEN \* None has no strip()
                 [acc |-> [acc EXCEPT !.raised = TRUE], documented |-> documented]
            ELSE DocumentModels(
                     acc,
                     [k \in (DOMAIN documented) \cup {model_name} |->
                         IF k = model_name
                         THEN [description |-> Strip(description.v), file |-> file]
                         ELSE documented[k]],
                     Tail(models), file)

\* Lines 48-59: the loop over the schema files, from file `file` on.
RECURSIVE DocumentFiles(_, _, _, _)
DocumentFiles(acc, documented, files, file) ==
    IF file > Len(files) \/ acc.raised THEN [acc |-> acc, documented |-> documented]
    ELSE LET l == load_schema_file(acc, files, file)
             d == DocumentModels(l.acc, documented, ModelsOf(l.schema), file)
         IN DocumentFiles(d.acc, d.documented, files, file + 1)

\* Lines 62-74, one model name.
CheckModelName(acc, documented, model_name) ==
    IF Str(model_name) \notin DOMAIN documented
    THEN [acc EXCEPT !.errors = Append(@, Undocumented(Str(model_name)))]
    ELSE IF documented[Str(model_name)].description = <<>>
    THEN [acc EXCEPT !.errors = Append(@,
              EmptyModelDescription(Str(model_name), documented[Str(model_name)].file))]
    ELSE IF Len(documented[Str(model_name)].description) < 10
    THEN [acc EXCEPT !.warnings = Append(@, ShortModelDescription(Str(model_name)))]
    ELSE acc

RECURSIVE CheckModelNames(_, _, _)
CheckModelNames(acc, documented, names) ==
    IF names = <<>> THEN acc
    ELSE CheckModelNames(CheckModelName(acc, documented, Head(names)), documented, Tail(names))

\* `files` are the schema files, `names` the stems of the .sql files.
validate_model_documentation(acc, files, names) ==
    LET d == DocumentFiles(acc, <<>>, files, 1)
    IN IF d.acc.raised THEN d.acc ELSE CheckModelNames(d.acc, d.documented, names)

\* Lines 96-107: the columns of one model.
RECURSIVE DescribeColumns(_, _, _, _)
DescribeColumns(acc, model_name, columns, file) ==
    IF columns = <<>> \/ acc.raised THEN acc
    ELSE LET column == Head(columns)
             col_name == Get(column, "name", None)
             description == Get(column, "description", Str(<<>>))
         IN IF description = None
            THEN [acc EXCEPT !.raised = TRUE]
            ELSE DescribeColumns(
                     IF Strip(description.v) = <<>>
                     THEN [acc EXCEPT !.errors =
                               Append(@, EmptyColumnDescription(model_name, col_name, file))]
                     ELSE IF Len(Strip(description.v)) < 5
                     THEN [acc EXCEPT !.warnings =
                               Append(@, ShortColumnDescription(model_name, col_name))]
                     ELSE acc,
                     model_name, Tail(columns), file)

\* Lines 86-107: the models of one file.
RECURSIVE DescribeModels(_, _, _)
DescribeModels(acc, models, file) ==
    IF models = <<>> \/ acc.raised THEN acc
    ELSE LET model == Head(models)
             model_name == Get(model, "name", None)
             columns == Get(model, "columns", List(<<>>))
         IN DescribeModels(
                IF columns = None \/ columns.v = <<>>
                THEN [acc EXCEPT !.warnings = Append(@, NoColumnsDocumented(model_name, file))]
                ELSE DescribeColumns(acc, model_name, columns.v, file),
                Tail(models), file)

RECURSIVE DescribeFiles(_, _, _)
DescribeFiles(acc, files, file) ==
    IF file > Len(files) \/ acc.raised THEN acc
    ELSE LET l == load_schema_file(acc, files, file)
         IN DescribeFiles(DescribeModels(l.acc, ModelsOf(l.schema), file), files, file + 1)

validate_column_documentation(acc, files) == DescribeFiles(acc, files, 1)

\* Lines 129-134: the kinds of the tests of a column, bare names and mapping keys.
RECURSIVE TestTypes(_)
TestTypes(tests) ==
    IF tests = <<>> THEN {}
    ELSE (IF Head(tests).t = "str" THEN {Head(tests).v}
          ELSE IF Head(tests).t = "dict" THEN Head(tests).v
          ELSE {})
         \cup TestTypes(Tail(tests))

\* Faulty variant: only the unique test is asked for.
RequireTests_unique_only(acc, model_name, col_name, test_types) ==
    IF "unique" \notin test_types
    THEN [acc EXCEPT !.warnings = Append(@, MissingTest(model_name, col_name, "unique"))]
    ELSE acc

\* One warning for each of unique and not_null that test_types lacks.
RequireTests(acc, model_name, col_name, test_types) ==
    LET a == IF "unique" \notin test_types
             THEN [acc EXCEPT !.warnings = Append(@, MissingTest(model_name, col_name, "unique"))]
             ELSE acc
    IN IF "not_null" \notin test_types
       THEN [a EXCEPT !.warnings = Append(@, MissingTest(model_name, col_name, "not_null"))]
       ELSE a

\* Lines 123-143: the columns of one model.
RECURSIVE TestColumns(_, _, _)
TestColumns(acc, model_name, columns) ==
    IF columns = <<>> \/ acc.raised THEN acc
    ELSE LET column == Head(columns)
             col_name == Get(column, "name", None)
             tests == Get(column, "tests", List(<<>>))
         IN IF col_name = None
            THEN \* None has no lower()
                 [acc EXCEPT !.raised = TRUE]
            ELSE TestColumns(
                     IF Contains(Lower(col_name.v), <<"i", "d">>)
                     THEN RequireTests(acc, model_name, col_name, TestTypes(tests.v))
                     ELSE acc,
                     model_name, Tail(columns))

RECURSIVE TestModels(_, _)
TestModels(acc, models) ==
    IF models = <<>> \/ acc.raised THEN acc
    ELSE LET model == Head(models)
             model_name == Get(model, "name", None)
             columns == Get(model, "columns", List(<<>>))
         IN TestModels(TestColumns(acc, model_name, columns.v), Tail(models))

RECURSIVE TestFiles(_, _, _)
TestFiles(acc, files, file) ==
    IF file > Len(files) \/ acc.raised THEN acc
    ELSE LET l == load_schema_file(acc, files, file)
         IN TestFiles(TestModels(l.acc, ModelsOf(l.schema)), files, file + 1)

validate_tests(acc, files) == TestFiles(acc, files, 1)

\* Lines 155-162: the models of one file.
RECURSIVE TagModels(_, _)
TagModels(acc, models) ==
    IF models = <<>> THEN acc
    ELSE LET model == Head(models)
             model_name == Get(model, "name", None)
             tags == Get(model, "tags", List(<<>>))
         IN TagModels(
                IF tags = None \/ tags.v = <<>>
                THEN [acc EXCEPT !.warnings = Append(@, NoTags(model_name))]
                ELSE acc,
                Tail(models))

RECURSIVE TagFiles(_, _, _)
TagFiles(acc, files, file) ==
    IF file > Len(files) THEN acc
    ELSE LET l == load_schema_file(acc, files, file)
         IN TagFiles(TagModels(l.acc, ModelsOf(l.schema)), files, file + 1)

validate_tags(acc, files) == TagFiles(acc, files, 1)

\* Faulty variant: warnings fail the run too.
generate_report_counting_warnings(errs, warns) == Len(errs) = 0 /\ Len(warns) = 0

\* generate_report: success means no errors, whatever the warnings.
generate_report(errs, warns) == Len(errs) = 0

(***************************************************************************)
(* validate_metadata.py: run_all_validations and main                      *)
(***************************************************************************)
\* The first `n` passes of run_all_validations on `files`, up to the first that throws.
RunPasses(files, names, n) ==
    LET a0 == [errors |-> <<>>, warnings |-> <<>>, raised |-> FALSE]
        a1 == IF n >= 1 THEN validate_model_documentation(a0, files, names) ELSE a0
        a2 == IF n >= 2 /\ ~a1.raised THEN validate_column_documentation(a1, files) ELSE a1
        a3 == IF n >= 3 /\ ~a2.raised THEN validate_tests(a2, files) ELSE a2
        a4 == IF n >= 4 /\ ~a3.raised THEN validate_tags(a3, files) ELSE a3
    IN a4

Acc == [errors |-> errors, warnings |-> warnings, raised |-> FALSE]

\* What a pass leaves behind: the lists, and the traceback exit if it threw.
Finish(acc) ==
    /\ errors' = acc.errors
    /\ warnings' = acc.warnings
    /\ vdone' = vdone + 1
    /\ IF acc.raised
       THEN vpc' = "crashed" /\ vexit' = 1
       ELSE vpc' = (IF vdone = 3 THEN "report" ELSE "validating") /\ vexit' = vexit
    /\ UNCHANGED <<corpus, model_names>>

ValInit ==
    /\ \/ corpus \in SeqsUpTo(ValDocs, MaxDocs) /\ model_names \in NameOrders
       \/ corpus \in TestCorpora /\ model_names = <<"users">>
    /\ errors = <<>>
    /\ warnings = <<>>
    /\ vdone = 0
    /\ vpc = "validating"
    /\ vexit = -1
    \* check_schema_changes.py is not run
    /\ repo = <<>>
    /\ idx = 0
    /\ breaking_changes = <<>>
    /\ non_breaking_changes = <<>>
    /\ mark_b = 0
    /\ mark_nb = 0
    /\ dpc = "idle"
    /\ dexit = -1

ValidateModelDocumentation ==
    /\ vpc = "validating" /\ vdone = 0
    /\ Finish(validate_model_documentation(Acc, corpus, model_names))
    /\ UNCHANGED dvars

ValidateColumnDocumentation ==
    /\ vpc = "validating" /\ vdone = 1
    /\ Finish(validate_column_documentation(Acc, corpus))
    /\ UNCHANGED dvars

ValidateTests ==
    /\ vpc = "validating" /\ vdone = 2
    /\ Finish(validate_tests(Acc, corpus))
    /\ UNCHANGED dvars

ValidateTags ==
    /\ vpc = "validating" /\ vdone = 3
    /\ Finish(validate_tags(Acc, corpus))
    /\ UNCHANGED dvars

\* generate_report, then main's sys.exit(0 if success else 1).
ValReport ==
    /\ vpc = "report"
    /\ vpc' = "exited"
    /\ vexit' = (IF generate_report(errors, warnings) THEN 0 ELSE 1)
    /\ UNCHANGED <<corpus, model_names, errors, warnings, vdone>>
    /\ UNCHANGED dvars

ValNext ==
    \/ ValidateModelDocumentation
    \/ ValidateColumnDocumentation
    \/ ValidateTests
    \/ ValidateTags
    \/ ValReport

SpecDiff == DiffInit /\ [][DiffNext]_vars
SpecVal == ValInit /\ [][ValNext]_vars

(***************************************************************************)
(* Properties of check_schema_changes.py                                   *)
(***************************************************************************)
\* The file processed last, its two revisions, and what it added to the lists.
Old == repo[idx].main
New == repo[idx].current
NewBreaking == SubSeq(breaking_changes, mark_b + 1, Len(breaking_changes))
NewNonBreaking == SubSeq(non_breaking_changes, mark_nb + 1, Len(non_breaking_changes))

DeclaredModels(doc) == IF doc.models = Absent THEN <<>> ELSE doc.models.v
DeclaredNames(doc) == {DeclaredModels(doc)[i].name : i \in DOMAIN DeclaredModels(doc)}

\* The column names of model n in doc; of its last declaration when it has several.
DeclaredColumns(doc, n) ==
    LET ms == DeclaredModels(doc)
        last == CHOOSE i \in DOMAIN ms :
                    ms[i].name = n /\ \A j \in DOMAIN ms : ms[j].name = n => j <= i
        cols == IF ms[last].columns = Absent THEN <<>> ELSE ms[last].columns.v
    IN {cols[i].name : i \in DOMAIN cols}

About(findings, n) == {i \in DOMAIN findings : findings[i].model = n}

\* C1: when the old document is non-empty, every model name in new but not
\* in old gets exactly one ModelAdded finding in the non-breaking list and
\* no finding in the breaking list.
C1_ModelAddedRecorded ==
    (idx > 0 /\ Truthy(Old)) =>
        \A n \in DeclaredNames(New) \ DeclaredNames(Old) :
            /\ Cardinality({i \in DOMAIN NewNonBreaking : NewNonBreaking[i] = ModelAdded(n)}) = 1
            /\ About(NewBreaking, n) = {}

\* C2: every model name in old but not in new gets exactly one ModelRemoved
\* finding in the breaking list, no non-breaking finding and no column finding.
C2_ModelRemovedOnce ==
    idx > 0 =>
        \A n \in DeclaredNames(Old) \ DeclaredNames(New) :
            /\ Cardinality(About(NewBreaking, n)) = 1
            /\ \A i \in About(NewBreaking, n) : NewBreaking[i] = ModelRemoved(n)
            /\ About(NewNonBreaking, n) = {}

C2_Witness ==
    /\ idx > 0
    /\ DeclaredNames(Old) \ DeclaredNames(New) # {}
    /\ DeclaredNames(Old) \cap DeclaredNames(New) # {}
    /\ Len(NewBreaking) > 0

\* C3: for a model in both documents the breaking list gets one
\* ColumnsRemoved finding with exactly old minus new when that is non-empty
\* and none otherwise, the non-breaking list one ColumnsAdded finding with
\* exactly new minus old when that is non-empty and none otherwise, and no
\* finding names a column the two have in common.
C3_ColumnDifferences ==
    idx > 0 =>
        \A n \in DeclaredNames(Old) \cap DeclaredNames(New) :
            LET removed == DeclaredColumns(Old, n) \ DeclaredColumns(New, n)
                added == DeclaredColumns(New, n) \ DeclaredColumns(Old, n)
                common == DeclaredColumns(Old, n) \cap DeclaredColumns(New, n)
            IN /\ Cardinality(About(NewBreaking, n)) = (IF removed = {} THEN 0 ELSE 1)
               /\ \A i \in About(NewBreaking, n) : NewBreaking[i] = ColumnsRemoved(n, removed)
               /\ Cardinality(About(NewNonBreaking, n)) = (IF added = {} THEN 0 ELSE 1)
               /\ \A i \in About(NewNonBreaking, n) : NewNonBreaking[i] = ColumnsAdded(n, added)
               /\ \A i \in About(NewBreaking, n) : NewBreaking[i].columns \cap common = {}
               /\ \A i \in About(NewNonBreaking, n) : NewNonBreaking[i].columns \cap common = {}

\* A renamed column: a -> d next to the unchanged b.
C3_Witness ==
    /\ idx > 0
    /\ \E n \in DeclaredNames(Old) \cap DeclaredNames(New) :
        /\ DeclaredColumns(Old, n) = {Str("a"), Str("b")}
        /\ DeclaredColumns(New, n) = {Str("b"), Str("d")}
        /\ Cardinality(About(NewBreaking, n)) = 1
        /\ Cardinality(About(NewNonBreaking, n)) = 1

\* C4: when every file processed so far is the same on both sides, both
\* lists are empty.
C4_SelfDiffEmpty ==
    (\A i \in 1..idx : repo[i].main = repo[i].current) =>
        (breaking_changes = <<>> /\ non_breaking_changes = <<>>)

C4_Witness ==
    /\ idx > 0
    /\ \A i \in 1..idx : repo[i].main = repo[i].current
    /\ \E n \in DeclaredNames(Old) : DeclaredColumns(Old, n) # {}
    /\ Len(DeclaredModels(Old)) > 1

\* C10: processing a file whose old document has zero models changes
\* neither list.
C10_NoBaselineNoFindings ==
    [][(idx' = idx + 1 /\ DeclaredModels(repo[idx + 1].main) = <<>>) =>
           (breaking_changes' = breaking_changes /\
            non_breaking_changes' = non_breaking_changes)]_vars

\* A second file with a non-empty old document that declares no models and a
\* new document that declares one, after a file that left findings.
C10_Witness ==
    /\ idx = 2
    /\ Truthy(Old)
    /\ DeclaredModels(Old) = <<>>
    /\ DeclaredModels(New) # <<>>
    /\ Len(breaking_changes) > 0
    /\ Len(non_breaking_changes) > 0

(***************************************************************************)
(* Properties of validate_metadata.py                                      *)
(***************************************************************************)
Readable == {i \in DOMAIN corpus : corpus[i] # Unreadable}
Count(findings, f) == Cardinality({i \in DOMAIN findings : findings[i] = f})

\* C5: once the four passes have run and the report is made, the exit status
\* is nonzero exactly when errors is non-empty.
C5_ExitStatusFollowsErrors ==
    vpc = "exited" => (vexit \in {0, 1} /\ ((vexit # 0) <=> (errors # <<>>)))

\* A run that ends with warnings only.
C5_Witness ==
    /\ vpc = "exited"
    /\ vdone = 4
    /\ errors = <<>>
    /\ warnings # <<>>
    /\ vexit = 0

\* C6: no validation pass throws, whatever keys are missing or null.
C6_NeverRaises == vpc # "crashed"

Emptied(files) == [i \in DOMAIN files |-> IF files[i] = Unreadable THEN EmptyDict ELSE files[i]]
IsRuleFinding(f) == f.kind # "LoadError"

Declarations == UNION {{<<i, j>> : j \in DOMAIN ModelsOf(corpus[i])} : i \in Readable}
DeclaredModel(d) == ModelsOf(corpus[d[1]])[d[2]]

\* Absent, or nothing but blanks.
IsEmptyText(v) == v = Absent \/ (v # None /\ \A k \in DOMAIN v.v : v.v[k] = " ")

\* C8: after the model pass, every declared model with an empty description
\* has an error of its own, whether or not a .sql file or another file names it.
C8_EveryEmptyDescriptionIsAnError ==
    (vdone >= 1 /\ ~(vpc = "crashed" /\ vdone = 1)) =>
        \A d \in Declarations :
            (DeclaredModel(d).name \notin {Absent, None}
             /\ IsEmptyText(DeclaredModel(d).description)) =>
                \E i \in DOMAIN errors :
                    /\ errors[i].kind = "EmptyModelDescription"
                    /\ errors[i].model = Get(DeclaredModel(d), "name", None)

\* The columns of the readable files: <<file, model position, column position>>.
ColumnsOf(model) == IF model.columns = Absent THEN <<>> ELSE model.columns.v
Occurrences ==
    UNION {{<<d[1], d[2], k>> : k \in DOMAIN ColumnsOf(DeclaredModel(d))} : d \in Declarations}
ModelNameAt(o) == Get(DeclaredModel(<<o[1], o[2]>>), "name", None)
ColumnAt(o) == ColumnsOf(DeclaredModel(<<o[1], o[2]>>))[o[3]]

\* "id" in the name, in either case.
IsIdName(c) ==
    \E i \in 1..(Len(c.v) - 1) : c.v[i] \in {"i", "I"} /\ c.v[i + 1] \in {"d", "D"}

\* Bare test names plus the keys of parameterized tests.
KindsAt(o) ==
    LET ts == IF ColumnAt(o).tests = Absent THEN <<>> ELSE ColumnAt(o).tests.v
    IN {ts[i].v : i \in {k \in DOMAIN ts : ts[k].t = "str"}}
       \cup UNION {ts[i].v : i \in {k \in DOMAIN ts : ts[k].t = "dict"}}

\* The columns named c of models named m that need a test of `kind` and lack it.
Lacking(m, c, kind) ==
    {o \in Occurrences :
        ModelNameAt(o) = m /\ ColumnAt(o).name = c /\ IsIdName(c) /\ kind \notin KindsAt(o)}

\* C9: once validate_tests has returned, warnings holds one rule-7 warning
\* per column whose name contains "id" and per kind among unique and
\* not_null that its tests lack, and no other rule-7 warning.
C9_IdColumnTestWarnings ==
    (vdone >= 3 /\ ~(vpc = "crashed" /\ vdone <= 3)) =>
        /\ \A o \in Occurrences : \A kind \in {"unique", "not_null"} :
              Count(warnings, MissingTest(ModelNameAt(o), ColumnAt(o).name, kind))
                  = Cardinality(Lacking(ModelNameAt(o), ColumnAt(o).name, kind))
        /\ \A i \in DOMAIN warnings :
              warnings[i].kind = "MissingTest" =>
                  /\ warnings[i].test \in {"unique", "not_null"}
                  /\ Lacking(warnings[i].model, warnings[i].column, warnings[i].test) # {}

\* "user_id" with the one test not_null, next to a column without "id".
C9_Witness ==
    /\ vdone >= 3
    /\ vpc # "crashed"
    /\ \E o \in Occurrences :
        /\ ColumnAt(o).name = Str(Text_users_id)
        /\ ColumnAt(o).tests = List(<<Str("not_null")>>)
        /\ Count(warnings, MissingTest(ModelNameAt(o), ColumnAt(o).name, "unique")) = 1
        /\ Count(warnings, MissingTest(ModelNameAt(o), ColumnAt(o).name, "not_null")) = 0
    /\ \E o \in Occurrences : ColumnAt(o).name = Str(Text_width)

====
